---------------------------- MODULE Spec2Model ----------------------------
(***************************************************************************)
(* Model of app.py, the GIR / APA simulator: the simplified GIR            *)
(* classifier (compute_gir_simplified), the tranche split and the          *)
(* participation formula (split_A, compute_participation), the loading of  *)
(* the configuration (load_cfg and the module-level conversions), and the  *)
(* script run that fills st.session_state and the hour range.              *)
(*                                                                         *)
(* Python floats are modelled as exact rationals: a sign, a numerator and  *)
(* a denominator, the last two arbitrary-precision naturals (TLC's own     *)
(* integers are 32 bits wide and the formula's products are not).  Float   *)
(* rounding error (about 1e-16 relative) is therefore not modelled.        *)
(* Item names are written without accents ("Coherence" for "Cohérence").   *)
(***************************************************************************)
EXTENDS Integers, Sequences, FiniteSets, TLC

(***************************************************************************)
(* Arbitrary-precision naturals: little-endian sequences of limbs, without *)
(* leading (last position) zero limbs; zero is the empty sequence.         *)
(***************************************************************************)
LimbBase == 100 * 100

IMax(a, b) == IF a >= b THEN a ELSE b

IMin(a, b) == IF a <= b THEN a ELSE b

RECURSIVE BigOf(_)
BigOf(n) == IF n = 0 THEN << >> ELSE <<n % LimbBase>> \o BigOf(n \div LimbBase)

RECURSIVE BigCarry(_, _, _)
BigCarry(s, i, c) ==
    IF i > Len(s) THEN BigOf(c)
    ELSE LET t == s[i] + c IN <<t % LimbBase>> \o BigCarry(s, i + 1, t \div LimbBase)

BigLimb(a, i) == IF i <= Len(a) THEN a[i] ELSE 0

BigAdd(a, b) ==
    IF a = << >> THEN b
    ELSE IF b = << >> THEN a
    ELSE BigCarry([i \in 1..IMax(Len(a), Len(b)) |-> BigLimb(a, i) + BigLimb(b, i)], 1, 0)

RECURSIVE BigConv(_, _, _, _, _)
BigConv(a, b, k, i, hi) ==
    IF i > hi THEN 0 ELSE a[i] * b[k + 1 - i] + BigConv(a, b, k, i + 1, hi)

BigMul(a, b) ==
    IF a = << >> \/ b = << >> THEN << >>
    ELSE IF a = <<1>> THEN b
    ELSE IF b = <<1>> THEN a
    ELSE BigCarry([k \in 1..(Len(a) + Len(b) - 1) |->
                      BigConv(a, b, k, IMax(1, k + 1 - Len(b)), IMin(k, Len(a)))], 1, 0)

RECURSIVE BigCmpAt(_, _, _)
BigCmpAt(a, b, i) ==
    IF i = 0 THEN 0
    ELSE IF a[i] < b[i] THEN -1
    ELSE IF a[i] > b[i] THEN 1
    ELSE BigCmpAt(a, b, i - 1)

\* -1, 0 or 1 as a < b, a = b, a > b
BigCmp(a, b) ==
    IF Len(a) < Len(b) THEN -1
    ELSE IF Len(a) > Len(b) THEN 1
    ELSE BigCmpAt(a, b, Len(a))

RECURSIVE BigTrim(_)
BigTrim(s) ==
    IF s = << >> THEN s
    ELSE IF s[Len(s)] = 0 THEN BigTrim(SubSeq(s, 1, Len(s) - 1))
    ELSE s

RECURSIVE BigBorrow(_, _, _, _)
BigBorrow(a, b, i, c) ==
    IF i > Len(a) THEN << >>
    ELSE LET t == a[i] - BigLimb(b, i) - c
         IN  IF t < 0 THEN <<t + LimbBase>> \o BigBorrow(a, b, i + 1, 1)
             ELSE <<t>> \o BigBorrow(a, b, i + 1, 0)

\* a - b for a >= b
BigSub(a, b) == BigTrim(BigBorrow(a, b, 1, 0))

(***************************************************************************)
(* Exact rationals [s: sign, n: numerator, d: denominator > 0]; the sign   *)
(* of zero is 1.  They stand for Python's float values.                    *)
(***************************************************************************)
RECURSIVE BigDivFrom(_, _, _, _)
BigDivFrom(a, k, i, r) ==
    IF i = 0 THEN << >>
    ELSE LET cur == r * LimbBase + a[i]
         IN  BigDivFrom(a, k, i - 1, cur % k) \o <<cur \div k>>

\* the integer part of a / k, for 0 < k < LimbBase
BigDivSmall(a, k) == BigTrim(BigDivFrom(a, k, Len(a), 0))

\* s n / d with the common trailing zero limbs of n and d cancelled
RECURSIVE RSigned(_, _, _)
RSigned(s, n, d) ==
    IF n = << >> THEN [s |-> 1, n |-> n, d |-> <<1>>]
    ELSE IF n[1] = 0 /\ d[1] = 0 THEN RSigned(s, Tail(n), Tail(d))
    ELSE [s |-> s, n |-> n, d |-> d]

\* the rational n / d of two integers, d > 0
Rat(n, d) == RSigned(IF n < 0 THEN -1 ELSE 1, BigOf(IF n < 0 THEN -n ELSE n), BigOf(d))

RInt(n) == Rat(n, 1)

RZero == RInt(0)

RNeg(x) == RSigned(-x.s, x.n, x.d)

RMul(x, y) == RSigned(x.s * y.s, BigMul(x.n, y.n), BigMul(x.d, y.d))

\* x / y for y # 0
RDiv(x, y) == RSigned(x.s * y.s, BigMul(x.n, y.d), BigMul(x.d, y.n))

\* the sum of two signed numerators over one denominator d
RSum(sx, nx, sy, ny, d) ==
    IF sx = sy THEN RSigned(sx, BigAdd(nx, ny), d)
    ELSE IF BigCmp(nx, ny) >= 0 THEN RSigned(sx, BigSub(nx, ny), d)
    ELSE RSigned(sy, BigSub(ny, nx), d)

RAdd(x, y) ==
    IF x.d = y.d THEN RSum(x.s, x.n, y.s, y.n, x.d)
    ELSE RSum(x.s, BigMul(x.n, y.d), y.s, BigMul(y.n, x.d), BigMul(x.d, y.d))

RSub(x, y) == RAdd(x, RNeg(y))

\* -1, 0 or 1 as x < y, x = y, x > y
RCmp(x, y) ==
    IF x.s # y.s THEN (IF x.s < y.s THEN -1 ELSE 1)
    ELSE x.s * (IF x.d = y.d THEN BigCmp(x.n, y.n)
                ELSE BigCmp(BigMul(x.n, y.d), BigMul(y.n, x.d)))

RLe(x, y) == RCmp(x, y) <= 0

RLt(x, y) == RCmp(x, y) < 0

REq(x, y) == RCmp(x, y) = 0

\* Python's min(x, y) and max(x, y)
RMin(x, y) == IF RLt(y, x) THEN y ELSE x

RMax(x, y) == IF RLt(x, y) THEN y ELSE x

RAbs(x) == RSigned(1, x.n, x.d)

RECURSIVE FloorBisect(_, _, _)
\* the integer k with k <= x < k + 1, given lo <= x < hi
FloorBisect(x, lo, hi) ==
    IF hi - lo <= 1 THEN lo
    ELSE LET mid == (lo + hi) \div 2
         IN  IF RLe(RInt(mid), x) THEN FloorBisect(x, mid, hi)
             ELSE FloorBisect(x, lo, mid)

RECURSIVE FloorUpper(_, _)
FloorUpper(x, hi) == IF RLt(x, RInt(hi)) THEN hi ELSE FloorUpper(x, 2 * hi)

RECURSIVE BigToInt(_, _)
BigToInt(a, i) == IF i > Len(a) THEN 0 ELSE a[i] + LimbBase * BigToInt(a, i + 1)

\* the integer part of x >= 0 (by one short division when the denominator is
\* a single limb)
RFloor(x) ==
    IF Len(x.d) = 1 THEN BigToInt(BigDivSmall(x.n, x.d[1]), 1)
    ELSE FloorBisect(x, 0, FloorUpper(x, 1))

\* Python's round(x): the nearest integer, a tie going to the even one
PyRound(x) ==
    LET a == RAbs(x)
        f == RFloor(a)
        c == RCmp(RSub(a, RInt(f)), Rat(1, 2))
    IN  x.s * (IF c < 0 THEN f
               ELSE IF c > 0 THEN f + 1
               ELSE IF f % 2 = 0 THEN f ELSE f + 1)

\* Python's round(x, 2), on the exact value of x
PyRound2(x) == Rat(PyRound(RMul(x, RInt(100))), 100)


(***************************************************************************)
(* A. Evaluation GIR (app.py, section A)                                   *)
(***************************************************************************)
\* the codes of AGGIR_ITEMS, in order
AGGIR_ITEMS ==
    <<"Coherence", "Orientation", "Toilette", "Habillage", "Alimentation",
      "Elimination", "Transferts", "Deplacements interieurs",
      "Deplacements exterieurs", "Communication">>

AGGIR_CODES == {AGGIR_ITEMS[i] : i \in 1..Len(AGGIR_ITEMS)}

\* the keys of CHOICES: 0 autonome, 1 aide partielle, 2 aide frequente ou continue
CHOICES == {0, 1, 2}

\* responses: a dict, modelled as a function from its keys to integers
compute_gir_simplified_and(responses) ==
    LET severe == Cardinality({k \in DOMAIN responses : responses[k] = 2})
        partial == Cardinality({k \in DOMAIN responses : responses[k] = 1})
        sev_keys == {k \in DOMAIN responses : responses[k] = 2}
    IN  IF severe >= 4 /\ ("Coherence" \in sev_keys /\ "Orientation" \in sev_keys) THEN 1
        ELSE IF severe >= 2 THEN 2
        ELSE IF severe >= 1 /\ partial >= 2 THEN 3
        ELSE IF partial >= 1 THEN 4
        ELSE IF severe = 0 /\ partial = 0 THEN 6 ELSE 5

\* compute_gir_simplified with the grades of its last line exchanged
compute_gir_simplified_swapped(responses) ==
    LET severe == Cardinality({k \in DOMAIN responses : responses[k] = 2})
        partial == Cardinality({k \in DOMAIN responses : responses[k] = 1})
        sev_keys == {k \in DOMAIN responses : responses[k] = 2}
    IN  IF severe >= 4 /\ ("Coherence" \in sev_keys \/ "Orientation" \in sev_keys) THEN 1
        ELSE IF severe >= 2 THEN 2
        ELSE IF severe >= 1 /\ partial >= 2 THEN 3
        ELSE IF partial >= 1 THEN 4
        ELSE IF severe = 0 /\ partial = 0 THEN 5 ELSE 6

compute_gir_simplified(responses) ==
    LET severe == Cardinality({k \in DOMAIN responses : responses[k] = 2})
        partial == Cardinality({k \in DOMAIN responses : responses[k] = 1})
        sev_keys == {k \in DOMAIN responses : responses[k] = 2}
    IN  IF severe >= 4 /\ ("Coherence" \in sev_keys \/ "Orientation" \in sev_keys) THEN 1
        ELSE IF severe >= 2 THEN 2
        ELSE IF severe >= 1 /\ partial >= 2 THEN 3
        ELSE IF partial >= 1 THEN 4
        ELSE IF severe = 0 /\ partial = 0 THEN 6 ELSE 5

(***************************************************************************)
(* B. APA & participation (app.py, section B)                              *)
(***************************************************************************)
\* seuil 1 x MTP (palier A1)
T1 == Rat(317, 1000)

\* seuil 2 x MTP (palier A2)
T2 == Rat(498, 1000)

\* 0,725 x MTP : 0 % de participation
LOW == Rat(725, 1000)

\* 2,67 x MTP : 90 % de participation
HIGH == Rat(267, 100)

\* the float literals 0.9, 0.4, 0.2 and 1
Lit09 == Rat(9, 10)

Lit04 == Rat(4, 10)

Lit02 == Rat(2, 10)

Lit1 == RInt(1)

\* split_A with the second tranche bounded by the second threshold itself
\* instead of by the width s2 - s1 of the tranche
split_A_wide(A, mtp) ==
    LET s1 == RMul(T1, mtp)
        s2 == RMul(T2, mtp)
        a1 == RMin(A, s1)
        a2 == RMin(RMax(RSub(A, s1), RZero), RMax(s2, RZero))
        a3 == RMax(RSub(A, s2), RZero)
    IN  <<a1, a2, a3>>

split_A(A, mtp) ==
    LET s1 == RMul(T1, mtp)
        s2 == RMul(T2, mtp)
        a1 == RMin(A, s1)
        a2 == RMin(RMax(RSub(A, s1), RZero), RMax(RSub(s2, s1), RZero))
        a3 == RMax(RSub(A, s2), RZero)
    IN  <<a1, a2, a3>>

\* compute_participation without the final clamp
compute_participation_unclamped(R, A, mtp) ==
    IF RLe(A, RZero) THEN RZero
    ELSE IF RLe(R, RMul(LOW, mtp)) THEN RZero
    ELSE IF RLe(RMul(HIGH, mtp), R) THEN RMul(Lit09, A)
    ELSE LET a == split_A(A, mtp)
             denom == RMul(RSub(HIGH, LOW), mtp)
             base == RMul(RDiv(RSub(R, RMul(LOW, mtp)), denom), Lit09)
             term2 == RAdd(RMul(RDiv(RSub(Lit1, Lit04), denom), R), Lit04)
             term3 == RAdd(RMul(RDiv(RSub(Lit1, Lit02), denom), R), Lit02)
             P == RAdd(RAdd(RMul(a[1], base), RMul(RMul(a[2], base), term2)),
                       RMul(RMul(a[3], base), term3))
         IN  P

\* compute_participation with the interior formula clamped to A instead of 0.9 A
compute_participation_cap_A(R, A, mtp) ==
    IF RLe(A, RZero) THEN RZero
    ELSE IF RLe(R, RMul(LOW, mtp)) THEN RZero
    ELSE IF RLe(RMul(HIGH, mtp), R) THEN RMul(Lit09, A)
    ELSE LET a == split_A(A, mtp)
             denom == RMul(RSub(HIGH, LOW), mtp)
             base == RMul(RDiv(RSub(R, RMul(LOW, mtp)), denom), Lit09)
             term2 == RAdd(RMul(RDiv(RSub(Lit1, Lit04), denom), R), Lit04)
             term3 == RAdd(RMul(RDiv(RSub(Lit1, Lit02), denom), R), Lit02)
             P == RAdd(RAdd(RMul(a[1], base), RMul(RMul(a[2], base), term2)),
                       RMul(RMul(a[3], base), term3))
         IN  RMax(RMin(P, A), RZero)

\* compute_participation with the lower threshold taken at T1 instead of LOW
compute_participation_low_T1(R, A, mtp) ==
    IF RLe(A, RZero) THEN RZero
    ELSE IF RLe(R, RMul(T1, mtp)) THEN RZero
    ELSE IF RLe(RMul(HIGH, mtp), R) THEN RMul(Lit09, A)
    ELSE LET a == split_A(A, mtp)
             denom == RMul(RSub(HIGH, LOW), mtp)
             base == RMul(RDiv(RSub(R, RMul(T1, mtp)), denom), Lit09)
             term2 == RAdd(RMul(RDiv(RSub(Lit1, Lit04), denom), R), Lit04)
             term3 == RAdd(RMul(RDiv(RSub(Lit1, Lit02), denom), R), Lit02)
             P == RAdd(RAdd(RMul(a[1], base), RMul(RMul(a[2], base), term2)),
                       RMul(RMul(a[3], base), term3))
         IN  RMax(RMin(P, RMul(Lit09, A)), RZero)

\* compute_participation returning the whole of A above the upper threshold
compute_participation_full(R, A, mtp) ==
    IF RLe(A, RZero) THEN RZero
    ELSE IF RLe(R, RMul(LOW, mtp)) THEN RZero
    ELSE IF RLe(RMul(HIGH, mtp), R) THEN A
    ELSE LET a == split_A(A, mtp)
             denom == RMul(RSub(HIGH, LOW), mtp)
             base == RMul(RDiv(RSub(R, RMul(LOW, mtp)), denom), Lit09)
             term2 == RAdd(RMul(RDiv(RSub(Lit1, Lit04), denom), R), Lit04)
             term3 == RAdd(RMul(RDiv(RSub(Lit1, Lit02), denom), R), Lit02)
             P == RAdd(RAdd(RMul(a[1], base), RMul(RMul(a[2], base), term2)),
                       RMul(RMul(a[3], base), term3))
         IN  RMax(RMin(P, RMul(Lit09, A)), RZero)

compute_participation(R, A, mtp) ==
    IF RLe(A, RZero) THEN RZero
    ELSE IF RLe(R, RMul(LOW, mtp)) THEN RZero
    ELSE IF RLe(RMul(HIGH, mtp), R) THEN RMul(Lit09, A)
    ELSE LET a == split_A(A, mtp)
             denom == RMul(RSub(HIGH, LOW), mtp)
             base == RMul(RDiv(RSub(R, RMul(LOW, mtp)), denom), Lit09)
             term2 == RAdd(RMul(RDiv(RSub(Lit1, Lit04), denom), R), Lit04)
             term3 == RAdd(RMul(RDiv(RSub(Lit1, Lit02), denom), R), Lit02)
             P == RAdd(RAdd(RMul(a[1], base), RMul(RMul(a[2], base), term2)),
                       RMul(RMul(a[3], base), term3))
         IN  RMax(RMin(P, RMul(Lit09, A)), RZero)

(***************************************************************************)
(* Chargement configuration (app.py, lines 35-67).                         *)
(* A parsed configuration value is None, a non-empty list (standing for    *)
(* every parsed value that is neither None nor a mapping) or a mapping.    *)
(* Of a mapping only the three keys the script reads are kept, each as an  *)
(* entry [t, v]:                                                           *)
(*   "mtp"                       t = "missing" | "num" | "bad"             *)
(*   "plafonds_multiplicateurs"  t = "missing" | "map" | "notmap" |        *)
(*                               "badmap"                                  *)
(*   "couts_horaires"            t = "missing" | "map" | "notmap"          *)
(* "num" is a value float() converts (a number or a numeric string) and    *)
(* "bad" one it raises on (None, "abc", a list); "notmap" is a value       *)
(* without .items() / .keys(); "badmap" is a mapping with a key int()      *)
(* raises on or a value float() raises on.  A "map" of ceilings is a       *)
(* function from grades to coefficients; a "map" of hourly costs is the    *)
(* sequence of its (mode, rate) items in insertion order, each rate an     *)
(* entry "num" or "bad".                                                   *)
(***************************************************************************)
Entry(t, v) == [t |-> t, v |-> v]

Missing == Entry("missing", << >>)

Num(n, d) == Entry("num", Rat(n, d))

Bad == Entry("bad", << >>)

Cout(mode, rate) == [mode |-> mode, rate |-> rate]

CfgMap(mtp, plaf, couts) == [kind |-> "map", mtp |-> mtp, plaf |-> plaf, couts |-> couts]

CfgNone == [kind |-> "none", mtp |-> Missing, plaf |-> Missing, couts |-> Missing]

CfgList == [kind |-> "list", mtp |-> Missing, plaf |-> Missing, couts |-> Missing]

DEFAULT_CFG ==
    CfgMap(Num(136508, 100),
           Entry("map", <<Rat(1615, 1000), Rat(1306, 1000), Rat(944, 1000), Rat(630, 1000)>>),
           Entry("map", <<Cout("Emploi direct", Num(1896, 100)),
                          Cout("SAAD - mandataire", Num(2100, 100)),
                          Cout("SAAD - prestataire", Num(2458, 100))>>))

\* the suffixes of CFG_PATHS: config.yaml, config.yml, config.json
CFG_PATHS == <<".yaml", ".yml", ".json">>

\* the state of one configuration file: absent, present but unreadable or
\* unparseable (the read or the parse raises), or parsed to a value
Absent == [st |-> "absent", val |-> CfgNone]

Broken == [st |-> "broken", val |-> CfgNone]

Parsed(v) == [st |-> "parsed", val |-> v]

\* Python's truth value of a parsed value: None and the empty mapping are false
Falsy(v) ==
    \/ v.kind = "none"
    \/ v.kind = "map" /\ v.mtp.t = "missing" /\ v.plaf.t = "missing" /\ v.couts.t = "missing"

RECURSIVE load_from(_, _)
load_from(fs, i) ==
    IF i > Len(CFG_PATHS) THEN DEFAULT_CFG
    ELSE IF fs[i].st = "parsed"
         THEN IF CFG_PATHS[i] \in {".yaml", ".yml"}
              THEN (IF Falsy(fs[i].val) THEN DEFAULT_CFG ELSE fs[i].val)
              ELSE fs[i].val
         ELSE load_from(fs, i + 1)

\* CFG = load_cfg(), fs the states of the three files of CFG_PATHS
load_cfg(fs) == load_from(fs, 1)

\* the outcome of a module-level statement: a value, or an exception raised
Value(v) == [ok |-> TRUE, v |-> v]

Raised == [ok |-> FALSE, v |-> << >>]

\* MTP = float(CFG.get("mtp", DEFAULT_CFG["mtp"]))
MTP(CFG) ==
    IF CFG.kind # "map" THEN Raised
    ELSE IF CFG.mtp.t = "missing" THEN Value(DEFAULT_CFG.mtp.v)
    ELSE IF CFG.mtp.t = "num" THEN Value(CFG.mtp.v)
    ELSE Raised

\* PLAF_COEF = {int(k): float(v) for k, v in CFG.get("plafonds_multiplicateurs", ...).items()}
PLAF_COEF(CFG) ==
    IF CFG.kind # "map" THEN Raised
    ELSE IF CFG.plaf.t = "missing" THEN Value(DEFAULT_CFG.plaf.v)
    ELSE IF CFG.plaf.t = "map" THEN Value(CFG.plaf.v)
    ELSE Raised

\* PLAF_COEF.get(gir, 0.0)
CoefOf(plaf, gir) == IF gir \in DOMAIN plaf THEN plaf[gir] ELSE RZero

(***************************************************************************)
(* Section 2 of the script (app.py, lines 198-243).                        *)
(***************************************************************************)
\* plafond = round(coef * MTP, 2) if coef else 0.0
Plafond(coef, mtp) == IF REq(coef, RZero) THEN RZero ELSE PyRound2(RMul(coef, mtp))

\* R = revenus_foyer if situation == "Seul(e)" else revenus_foyer / 1.7
RevenusPrisEnCompte(revenus_foyer, situation) ==
    IF situation = "Seul(e)" THEN revenus_foyer ELSE RDiv(revenus_foyer, Rat(17, 10))

\* A_effectif = min(A, plafond) if plafond > 0 else A
A_effectif_max(A, plafond) == IF RLt(RZero, plafond) THEN RMax(A, plafond) ELSE A

A_effectif(A, plafond) == IF RLt(RZero, plafond) THEN RMin(A, plafond) ELSE A

\* T = 0.0 if A_effectif == 0 else P / A_effectif
Taux(P, Aeff) == IF REq(Aeff, RZero) THEN RZero ELSE RDiv(P, Aeff)

\* APA_versee = max(A_effectif - P, 0.0)
APA_versee(Aeff, P) == RMax(RSub(Aeff, P), RZero)

(***************************************************************************)
(* Section 3 of the script (app.py, lines 260-269): [h_min, h_max]         *)
(***************************************************************************)
HeuresPossibles_inverse(apa, cout_h) ==
    LET base_heures == IF RLe(apa, RZero) THEN RZero ELSE RDiv(cout_h, apa)
        h_min == IMax(0, PyRound(RMul(base_heures, Rat(70, 100))))
        h_max == IMax(h_min, PyRound(RMul(base_heures, Rat(90, 100))))
    IN  <<h_min, h_max>>

HeuresPossibles(apa, cout_h) ==
    LET base_heures == IF RLe(cout_h, RZero) THEN RZero ELSE RDiv(apa, cout_h)
        h_min == IMax(0, PyRound(RMul(base_heures, Rat(70, 100))))
        h_max == IMax(h_min, PyRound(RMul(base_heures, Rat(90, 100))))
    IN  <<h_min, h_max>>

(***************************************************************************)
(* State.                                                                  *)
(*   g_*: calls of compute_gir_simplified (the form of section 1):         *)
(*        g_responses the dict passed, g_result the grade returned, 0      *)
(*        before the call; g_prevResponses / g_prevResult those of the     *)
(*        call before (<<>> and 0 when there was none).                    *)
(*   p_*: calls of split_A and compute_participation for one plan amount   *)
(*        p_A and one reference amount p_mtp: p_calls counts the calls of  *)
(*        compute_participation (2 stands for two or more), p_R / p_P the  *)
(*        income and result of the last call, p_prevR / p_prevP those of   *)
(*        the call before, p_tranches the result of split_A (<<>> before). *)
(*   the session of one browser tab:                                       *)
(*        files          the states of the three files of CFG_PATHS        *)
(*        run            how the last run of the script ended: "none"      *)
(*                       before the first, "ok", "error_config" (a         *)
(*                       module-level statement raised) or                 *)
(*                       "error_section3" (section 3 raised)               *)
(*        session_state  st.session_state, a function from its keys        *)
(*        widgets        the values held by the widgets of sections 2, 3   *)
(*        view           what the last run rendered in sections 2 and 3    *)
(***************************************************************************)
VARIABLES g_responses, g_result, g_prevResponses, g_prevResult,
          p_mtp, p_A, p_calls, p_R, p_P, p_prevR, p_prevP, p_tranches,
          files, run, session_state, widgets, view

g_vars == <<g_responses, g_result, g_prevResponses, g_prevResult>>

p_vars == <<p_mtp, p_A, p_calls, p_R, p_P, p_prevR, p_prevP, p_tranches>>

s_vars == <<files, run, session_state, widgets, view>>

vars == <<g_vars, p_vars, s_vars>>

g_Idle ==
    /\ g_responses = << >> /\ g_result = 0
    /\ g_prevResponses = << >> /\ g_prevResult = 0

p_Idle ==
    /\ p_mtp = RZero /\ p_A = RZero /\ p_calls = 0
    /\ p_R = RZero /\ p_P = RZero /\ p_prevR = RZero /\ p_prevP = RZero
    /\ p_tranches = << >>

\* the widgets as first rendered: index=0, value=1500.0, value=float(plafond)
DefaultWidgets ==
    [situation |-> "Seul(e)", revenus_foyer |-> RInt(1500),
     A |-> [typed |-> FALSE, v |-> RZero], mode |-> 1]

NoView ==
    [sec2 |-> FALSE, plafond |-> RZero, A |-> RZero,
     sec3 |-> FALSE, nmodes |-> 0, mode |-> "", cout_h |-> RZero,
     apa |-> RZero, h_min |-> 0, h_max |-> 0]

s_Idle ==
    /\ files = <<Absent, Absent, Absent>>
    /\ run = "none"
    /\ session_state = << >>
    /\ widgets = DefaultWidgets
    /\ view = NoView

(***************************************************************************)
(* SpecGir: compute_gir_simplified applied to one dict.                    *)
(***************************************************************************)
\* bounds of the dicts that are not complete assessments
MaxPartialKeys == 2

MaxAnswer == 3

\* what the form of section 1 builds: the ten codes, each with a key of CHOICES
CompleteResponses == [AGGIR_CODES -> CHOICES]

\* dicts with few keys, and answers up to MaxAnswer
PartialResponses ==
    UNION {[S -> 0..MaxAnswer] :
              S \in {T \in SUBSET AGGIR_CODES : Cardinality(T) <= MaxPartialKeys}}

\* the ten codes, one of them with an answer that is no key of CHOICES
OddResponses ==
    {[k \in AGGIR_CODES |-> IF k = o THEN x ELSE v] :
        o \in AGGIR_CODES, x \in 3..MaxAnswer, v \in CHOICES}

GirInit ==
    /\ g_responses \in CompleteResponses \cup PartialResponses \cup OddResponses
    /\ g_result = 0
    /\ g_prevResponses = << >> /\ g_prevResult = 0
    /\ p_Idle
    /\ s_Idle

Estimate ==
    /\ g_result = 0
    /\ g_result' = compute_gir_simplified(g_responses)
    /\ UNCHANGED <<g_responses, g_prevResponses, g_prevResult, p_vars, s_vars>>

GirNext == Estimate

SpecGir == GirInit /\ [][GirNext]_vars

\* the number of answers equal to v
CountOf(responses, v) == Cardinality({k \in DOMAIN responses : responses[k] = v})

\* the input constraint of the specification: exactly the ten codes, answers in {0,1,2}
ValidAssessment(responses) ==
    /\ DOMAIN responses = AGGIR_CODES
    /\ \A k \in DOMAIN responses : responses[k] \in {0, 1, 2}

\* C1: a complete assessment with at least 4 answers of 2, one of them for
\* Coherence or for Orientation, is classified grade 1.
C1_SevereMentalIsGir1 ==
    (/\ g_result # 0
     /\ ValidAssessment(g_responses)
     /\ CountOf(g_responses, 2) >= 4
     /\ (g_responses["Coherence"] = 2 \/ g_responses["Orientation"] = 2))
    => g_result = 1

\* C1 witness: classified, exactly four answers of 2, Orientation among them and
\* Coherence not.
C1_Witness ==
    /\ g_result = 1
    /\ ValidAssessment(g_responses)
    /\ CountOf(g_responses, 2) = 4
    /\ g_responses["Orientation"] = 2
    /\ g_responses["Coherence"] # 2

\* C9 (as claimed): a dict that is not a complete assessment with answers in
\* {0,1,2} is rejected (InvalidInput) and no grade is returned; g_result holds
\* the grade returned, so a rejected call would leave no grade in 1..6.
C9_InvalidInputRejected ==
    (g_result # 0 /\ ~ValidAssessment(g_responses)) => g_result \notin 1..6

(***************************************************************************)
(* SpecPart: split_A and compute_participation applied to amounts in       *)
(* euros.  The reference amounts are the default MTP and round ones, the   *)
(* plan amounts and incomes lie on a grid and on the thresholds            *)
(* themselves (T1, T2, LOW and HIGH times the reference amount).           *)
(***************************************************************************)
\* the grids: reference amounts 500 k (k in 2..MaxMtpK), plan amounts 150 k
\* (k in 0..MaxAK), incomes 450 k (k in 0..MaxRK)
MaxMtpK == 2

MaxAK == 7

MaxRK == 9

\* DEFAULT_CFG["mtp"] = 1365.08
DefaultMtp == Rat(136508, 100)

MtpInputs == {DefaultMtp} \cup {RInt(500 * k) : k \in 2..MaxMtpK}

AInputs(mtp) == {RInt(150 * k) : k \in 0..MaxAK} \cup {RMul(T1, mtp), RMul(T2, mtp)}

RInputs(mtp) == {RInt(450 * k) : k \in 0..MaxRK} \cup {RMul(LOW, mtp), RMul(HIGH, mtp)}

PartInit ==
    /\ p_mtp \in MtpInputs
    /\ p_A \in AInputs(p_mtp)
    /\ p_calls = 0
    /\ p_R = RZero /\ p_P = RZero /\ p_prevR = RZero /\ p_prevP = RZero
    /\ p_tranches = << >>
    /\ g_Idle
    /\ s_Idle

CallSplit ==
    /\ p_tranches = << >>
    /\ p_tranches' = split_A(p_A, p_mtp)
    /\ UNCHANGED <<p_mtp, p_A, p_calls, p_R, p_P, p_prevR, p_prevP, g_vars, s_vars>>

CallParticipation(R) ==
    /\ p_prevR' = p_R
    /\ p_prevP' = p_P
    /\ p_R' = R
    /\ p_P' = compute_participation(R, p_A, p_mtp)
    /\ p_calls' = IMin(p_calls + 1, 2)
    /\ UNCHANGED <<p_mtp, p_A, p_tranches, g_vars, s_vars>>

PartNext ==
    \/ CallSplit
    \/ \E R \in RInputs(p_mtp) : CallParticipation(R)

SpecPart == PartInit /\ [][PartNext]_vars

\* the thresholds of the claims, written as in the claims
Claim0725 == Rat(725, 1000)

Claim267 == Rat(267, 100)

Claim09 == Rat(9, 10)

\* C2: for M > 0, A >= 0 and R >= 0 the participation P returned satisfies
\* 0 <= P <= 0.9 A.
C2_ParticipationBounded ==
    (p_calls >= 1 /\ RLt(RZero, p_mtp) /\ RLe(RZero, p_A) /\ RLe(RZero, p_R))
    => (RLe(RZero, p_P) /\ RLe(p_P, RMul(Claim09, p_A)))

\* C2 witness: an income strictly between the two thresholds for which the
\* result is exactly the cap 0.9 A, with A > 0.
C2_Witness ==
    /\ p_calls >= 1
    /\ RLt(RZero, p_A)
    /\ RLt(RMul(Claim0725, p_mtp), p_R)
    /\ RLt(p_R, RMul(Claim267, p_mtp))
    /\ REq(p_P, RMul(Claim09, p_A))

\* C3: for fixed A >= 0 and M > 0 the participation is non-decreasing in R:
\* of two calls, the one with the lower income returns no more than the other.
C3_ParticipationMonotone ==
    (p_calls >= 2 /\ RLt(RZero, p_mtp) /\ RLe(RZero, p_A))
    => /\ (RLe(p_prevR, p_R) => RLe(p_prevP, p_P))
       /\ (RLe(p_R, p_prevR) => RLe(p_P, p_prevP))

\* C3 witness: two calls on either side of the upper threshold 2.67 M, the lower
\* income strictly inside the two thresholds and paying strictly less.
C3_Witness ==
    /\ p_calls >= 2
    /\ RLt(RMul(Claim0725, p_mtp), p_prevR)
    /\ RLt(p_prevR, RMul(Claim267, p_mtp))
    /\ RLe(RMul(Claim267, p_mtp), p_R)
    /\ RLt(RZero, p_prevP)
    /\ RLt(p_prevP, p_P)

\* C4: the participation is 0 whenever R <= 0.725 M, for any A >= 0.
C4_ZeroBelowLow ==
    (p_calls >= 1 /\ RLe(RZero, p_A) /\ RLe(p_R, RMul(Claim0725, p_mtp)))
    => REq(p_P, RZero)

\* C4 witness: a positive plan amount and a positive income no higher than
\* 0.725 M, with a participation of 0.
C4_Witness ==
    /\ p_calls >= 1
    /\ RLt(RZero, p_A)
    /\ RLt(RZero, p_R)
    /\ RLe(p_R, RMul(Claim0725, p_mtp))
    /\ REq(p_P, RZero)

\* C5: the participation is 0.9 A whenever R >= 2.67 M.
C5_NinetyAboveHigh ==
    (p_calls >= 1 /\ RLe(RMul(Claim267, p_mtp), p_R))
    => REq(p_P, RMul(Claim09, p_A))

\* C5 witness: a positive plan amount, an income of at least 2.67 M and a
\* participation of 0.9 A.
C5_Witness ==
    /\ p_calls >= 1
    /\ RLt(RZero, p_A)
    /\ RLe(RMul(Claim267, p_mtp), p_R)
    /\ REq(p_P, RMul(Claim09, p_A))

\* C6: for A >= 0 and M > 0 the three tranches of split_A are each >= 0 and
\* their sum is A.
C6_TranchesSumToA ==
    (p_tranches # << >> /\ RLe(RZero, p_A) /\ RLt(RZero, p_mtp))
    => /\ \A i \in 1..3 : RLe(RZero, p_tranches[i])
       /\ REq(RAdd(RAdd(p_tranches[1], p_tranches[2]), p_tranches[3]), p_A)

\* C6 witness: a plan amount above the second threshold, so that the three
\* tranches are all positive.
C6_Witness ==
    /\ p_tranches # << >>
    /\ \A i \in 1..3 : RLt(RZero, p_tranches[i])

(***************************************************************************)
(* Spec: the session.  Streamlit runs the whole script once when the page  *)
(* loads and once more after every interaction (the form's submit button,  *)
(* or a change of one widget of sections 2 and 3); a run reads the         *)
(* configuration, then executes sections 1, 2 and 3 in order.  An          *)
(* exception ends the run where it is raised.                              *)
(***************************************************************************)
SessionKeys ==
    {"R_calcule", "A_effectif", "T_taux", "P_participation", "revenus_foyer",
     "situation_familiale", "APA_versee"}

\* section 1, after a submit: the two keys it stores
Section1(ss, responses) ==
    [k \in DOMAIN ss \cup {"gir_estime", "aggir_responses"} |->
        IF k = "gir_estime" THEN compute_gir_simplified(responses)
        ELSE IF k = "aggir_responses" THEN responses
        ELSE ss[k]]

\* Section2Memo keeping a participation already stored instead of overwriting it
Section2Memo_setdefault(ss, w, plafond, kept, A, R, Aeff, P) ==
    [ss |-> [k \in DOMAIN ss \cup SessionKeys |->
                IF k = "R_calcule" THEN R
                ELSE IF k = "A_effectif" THEN Aeff
                ELSE IF k = "T_taux" THEN Taux(P, Aeff)
                ELSE IF k = "P_participation"
                     THEN (IF k \in DOMAIN ss THEN ss[k] ELSE P)
                ELSE IF k = "revenus_foyer" THEN w.revenus_foyer
                ELSE IF k = "situation_familiale" THEN w.situation
                ELSE IF k = "APA_versee" THEN APA_versee(Aeff, P)
                ELSE ss[k]],
     plafond |-> plafond,
     A |-> A,
     w |-> [w EXCEPT !.A = IF kept THEN @ ELSE DefaultWidgets.A]]

\* section 2, lines 236-243: the seven keys stored, and what was rendered
Section2Memo(ss, w, plafond, kept, A, R, Aeff, P) ==
    [ss |-> [k \in DOMAIN ss \cup SessionKeys |->
                IF k = "R_calcule" THEN R
                ELSE IF k = "A_effectif" THEN Aeff
                ELSE IF k = "T_taux" THEN Taux(P, Aeff)
                ELSE IF k = "P_participation" THEN P
                ELSE IF k = "revenus_foyer" THEN w.revenus_foyer
                ELSE IF k = "situation_familiale" THEN w.situation
                ELSE IF k = "APA_versee" THEN APA_versee(Aeff, P)
                ELSE ss[k]],
     plafond |-> plafond,
     A |-> A,
     w |-> [w EXCEPT !.A = IF kept THEN @ ELSE DefaultWidgets.A]]

\* section 2, lines 216-233: R, A_effectif and P
Section2Calculs(ss, w, mtp, plafond, kept, A, R, Aeff) ==
    Section2Memo(ss, w, plafond, kept, A, R, Aeff, compute_participation(R, Aeff, mtp))

\* section 2, lines 209-228.  The number input of A has no key and
\* value=float(plafond): it holds what was typed for as long as it is rendered
\* with the same plafond, and otherwise shows the plafond.
Section2Inputs(ss, w, mtp, plafond, kept) ==
    LET A == IF kept THEN w.A.v ELSE plafond
    IN  Section2Calculs(ss, w, mtp, plafond, kept, A,
                        RevenusPrisEnCompte(w.revenus_foyer, w.situation),
                        A_effectif(A, plafond))

Section2Plafond(ss, w, mtp, plafond, old) ==
    Section2Inputs(ss, w, mtp, plafond,
                   w.A.typed /\ old.sec2 /\ REq(old.plafond, plafond))

\* section 2 when "gir_estime" is in the session state, lines 198-200
Section2(ss, w, mtp, plaf, old) ==
    Section2Plafond(ss, w, mtp, Plafond(CoefOf(plaf, ss["gir_estime"]), mtp), old)

\* section 3 when "gir_estime" is in the session state
Section3(ss, CFG, w) ==
    LET apa == IF "APA_versee" \in DOMAIN ss THEN ss["APA_versee"] ELSE RZero
        couts_horaires == IF CFG.couts.t = "missing" THEN DEFAULT_CFG.couts ELSE CFG.couts
        none == [ok |-> FALSE, nmodes |-> 0, mode |-> "", cout_h |-> RZero,
                 apa |-> apa, h |-> <<0, 0>>]
    IN  IF couts_horaires.t # "map" THEN none
        ELSE LET n == Len(couts_horaires.v)
                 i == IF w.mode <= n THEN w.mode ELSE 1
                 mode == IF n = 0 THEN "" ELSE couts_horaires.v[i].mode
                 rate == IF n = 0 THEN Num(0, 1) ELSE couts_horaires.v[i].rate
             IN  IF rate.t # "num"
                 THEN [none EXCEPT !.nmodes = n, !.mode = mode]
                 ELSE [ok |-> TRUE, nmodes |-> n, mode |-> mode, cout_h |-> rate.v,
                       apa |-> apa, h |-> HeuresPossibles(apa, rate.v)]

\* the outcome of a run that executed sections 2 (s2) and 3 (s3)
Rendered(s2, s3) ==
    [run |-> IF s3.ok THEN "ok" ELSE "error_section3",
     ss |-> s2.ss,
     w |-> s2.w,
     view |-> [sec2 |-> TRUE, plafond |-> s2.plafond, A |-> s2.A,
               sec3 |-> s3.ok, nmodes |-> s3.nmodes,
               mode |-> s3.mode, cout_h |-> s3.cout_h,
               apa |-> s3.apa,
               h_min |-> s3.h[1], h_max |-> s3.h[2]]]

Sections23(CFG, s2) == Rendered(s2, Section3(s2.ss, CFG, s2.w))

\* sections 1 to 3, ss1 being the session state after section 1
Sections(CFG, mtp, plaf, ss1, w, old) ==
    IF "gir_estime" \notin DOMAIN ss1
    THEN [run |-> "ok", ss |-> ss1, w |-> w, view |-> NoView]
    ELSE Sections23(CFG, Section2(ss1, w, mtp, plaf, old))

\* the module-level statements after CFG = load_cfg(), then the sections
RunWith(CFG, ss, old, submitted, responses, w) ==
    IF ~MTP(CFG).ok \/ ~PLAF_COEF(CFG).ok
    THEN [run |-> "error_config", ss |-> ss, w |-> w, view |-> NoView]
    ELSE Sections(CFG, MTP(CFG).v, PLAF_COEF(CFG).v,
                  IF submitted THEN Section1(ss, responses) ELSE ss, w, old)

\* the outcome of one run of the script on the files fs, the session state ss
\* and the previous rendering old: submitted and responses are the form's, w
\* the values of the widgets after the interaction
RunOutcome(fs, ss, old, submitted, responses, w) ==
    RunWith(load_cfg(fs), ss, old, submitted, responses, w)

ScriptRun(submitted, responses, w) ==
    \E out \in {RunOutcome(files, session_state, view, submitted, responses, w)} :
        /\ run' = out.run
        /\ session_state' = out.ss
        /\ widgets' = out.w
        /\ view' = out.view
        /\ UNCHANGED <<files, g_vars, p_vars>>

\* configurations on disk
CustomCouts ==
    Entry("map", <<Cout("Emploi direct", Num(20, 1)), Cout("SAAD - prestataire", Num(25, 1))>>)

CustomCfg ==
    CfgMap(Num(1400, 1),
           Entry("map", <<Rat(16, 10), Rat(13, 10), Rat(95, 100), Rat(6, 10)>>),
           CustomCouts)

BadRateCouts ==
    Entry("map", <<Cout("Emploi direct", Num(1896, 100)), Cout("SAAD - mandataire", Bad)>>)

\* the files of the sessions of Spec: none, and a config.json read after a
\* config.yaml that does not parse
SessionConfigs ==
    << <<Absent, Absent, Absent>>,
       <<Broken, Absent, Parsed(CustomCfg)>> >>

\* the files of the sessions of SpecCfg
ConfigScenarios ==
    << <<Absent, Absent, Absent>>,
       <<Broken, Absent, Parsed(CustomCfg)>>,
       <<Parsed(CfgNone), Absent, Absent>>,
       <<Parsed(CfgList), Absent, Absent>>,
       <<Absent, Absent, Parsed(CfgNone)>>,
       <<Absent, Parsed(CfgMap(Missing, Missing, CustomCouts)), Absent>>,
       <<Parsed(CfgMap(Bad, Missing, Missing)), Absent, Absent>>,
       <<Absent, Absent, Parsed(CfgMap(Missing, Entry("notmap", << >>), Missing))>>,
       <<Absent, Parsed(CfgMap(Missing, Entry("badmap", << >>), Missing)), Absent>>,
       <<Parsed(CfgMap(Missing, Missing, Entry("notmap", << >>))), Absent, Absent>>,
       <<Absent, Absent, Parsed(CfgMap(Missing, Missing, BadRateCouts))>> >>

\* the assessments submitted: the first a items answered 2, the next b answered 1
ItemIndex(k) == CHOOSE i \in 1..Len(AGGIR_ITEMS) : AGGIR_ITEMS[i] = k

Profile(a, b) ==
    [k \in AGGIR_CODES |->
        IF ItemIndex(k) <= a THEN 2 ELSE IF ItemIndex(k) <= a + b THEN 1 ELSE 0]

SessionProfiles == {<<0, 0>>, <<1, 0>>, <<0, 1>>, <<1, 2>>, <<2, 0>>, <<4, 0>>}

\* the grids: household incomes 2250 k (k in 0..MaxRevK), plan amounts 400 k
\* (k in 0..MaxPlanK) and an amount 100 above the ceiling
MaxRevK == 2

MaxPlanK == 1

Situations == {"Seul(e)", "En couple"}

RevenusInputs == {RInt(2250 * k) : k \in 0..MaxRevK}

PlanInputs(plafond) == {RInt(400 * k) : k \in 0..MaxPlanK} \cup {RAdd(plafond, RInt(100))}

Init ==
    /\ \E i \in 1..Len(SessionConfigs) : files = SessionConfigs[i]
    /\ run = "none"
    /\ session_state = << >>
    /\ widgets = DefaultWidgets
    /\ view = NoView
    /\ g_Idle
    /\ p_Idle

\* the form of section 1 is rendered unless a module-level statement raised
FormRendered == run \in {"ok", "error_section3"}

PageLoad ==
    /\ run = "none"
    /\ ScriptRun(FALSE, << >>, widgets)

Submit(responses) ==
    /\ FormRendered
    /\ ScriptRun(TRUE, responses, widgets)

ChangeSituation(situation) ==
    /\ FormRendered /\ view.sec2
    /\ ScriptRun(FALSE, << >>, [widgets EXCEPT !.situation = situation])

ChangeRevenus(revenus_foyer) ==
    /\ FormRendered /\ view.sec2
    /\ ScriptRun(FALSE, << >>, [widgets EXCEPT !.revenus_foyer = revenus_foyer])

ChangeA(A) ==
    /\ FormRendered /\ view.sec2
    /\ ScriptRun(FALSE, << >>, [widgets EXCEPT !.A = [typed |-> TRUE, v |-> A]])

ChangeMode(i) ==
    /\ FormRendered /\ view.sec2
    /\ i \in 1..view.nmodes
    /\ ScriptRun(FALSE, << >>, [widgets EXCEPT !.mode = i])

Next ==
    \/ PageLoad
    \/ \E pr \in SessionProfiles : Submit(Profile(pr[1], pr[2]))
    \/ \E situation \in Situations : ChangeSituation(situation)
    \/ \E revenus_foyer \in RevenusInputs : ChangeRevenus(revenus_foyer)
    \/ \E A \in PlanInputs(view.plafond) : ChangeA(A)
    \/ \E i \in 1..3 : ChangeMode(i)

Spec == Init /\ [][Next]_vars

(***************************************************************************)
(* SpecCfg: the same script, started on each state of the configuration    *)
(* files, with the interactions that reach section 3 under each of its     *)
(* modes.                                                                  *)
(***************************************************************************)
CfgInit ==
    /\ \E i \in 1..Len(ConfigScenarios) : files = ConfigScenarios[i]
    /\ run = "none"
    /\ session_state = << >>
    /\ widgets = DefaultWidgets
    /\ view = NoView
    /\ g_Idle
    /\ p_Idle

CfgNext ==
    \/ PageLoad
    \/ \E sit \in Situations : ChangeSituation(sit)
    \/ \E pr \in SessionProfiles : Submit(Profile(pr[1], pr[2]))
    \/ \E i \in 1..3 : ChangeMode(i)

SpecCfg == CfgInit /\ [][CfgNext]_vars

\* the configuration in use in the current state
CfgInUse == load_cfg(files)

\* the ceiling of a grade as the specification has it: coefficient[grade] * MTP,
\* 0 for a grade without a coefficient
Ceiling(gir) == RMul(CoefOf(PLAF_COEF(CfgInUse).v, gir), MTP(CfgInUse).v)

\* C7 (as claimed): whenever a benefit computation exists, A_effectif is at most
\* the ceiling of the estimated grade, the ceiling being 0 for grades 5 and 6.
C7_CappedAtCeiling ==
    view.sec2 => RLe(session_state["A_effectif"], Ceiling(session_state["gir_estime"]))

\* C7 (amended): whenever a benefit computation exists and the plafond (the
\* ceiling rounded to cents) is positive, A_effectif is at most the plafond;
\* when the plafond is not positive, A_effectif is the requested amount A.
C7_CappedAtPositivePlafond ==
    view.sec2 =>
        LET plafond == PyRound2(Ceiling(session_state["gir_estime"]))
        IN  /\ RLt(RZero, plafond) => RLe(session_state["A_effectif"], plafond)
            /\ ~RLt(RZero, plafond) => REq(session_state["A_effectif"], view.A)

\* C7 witness: a requested amount above a positive plafond, cut down to it.
C7_Witness ==
    /\ view.sec2
    /\ RLt(RZero, view.plafond)
    /\ RLt(view.plafond, view.A)
    /\ REq(session_state["A_effectif"], view.plafond)

\* C8 (as claimed): with an hourly rate of 20 and a net subsidy of 400 the hour
\* range shown is [10, 13].
C8_HourRange10To13 ==
    (view.sec3 /\ REq(view.cout_h, RInt(20)) /\ REq(view.apa, RInt(400)))
    => (view.h_min = 10 /\ view.h_max = 13)

\* C8 (amended): with an hourly rate of 20 and a net subsidy of 400 the hour
\* range shown is [14, 18]: baseHours = 400 / 20 = 20, round(0.70 * 20) = 14 and
\* round(0.90 * 20) = 18.
C8_HourRange14To18 ==
    (view.sec3 /\ REq(view.cout_h, RInt(20)) /\ REq(view.apa, RInt(400)))
    => (view.h_min = 14 /\ view.h_max = 18)

\* C8 witness: section 3 rendered with an hourly rate of 20 and a net subsidy
\* of 400.
C8_Witness ==
    /\ view.sec3
    /\ REq(view.cout_h, RInt(20))
    /\ REq(view.apa, RInt(400))
    /\ view.h_min = 14

\* C10 (as claimed): whatever the configuration files hold, no run of the
\* script ends on an exception raised while reading the configuration.
C10_ConfigNeverFailsHard == run \notin {"error_config", "error_section3"}

\* the inputs of section 2 as the page holds them in the current state: the
\* plafond of the stored grade, the amount in the A input, the income taken
\* into account
InputPlafond ==
    Plafond(CoefOf(PLAF_COEF(CfgInUse).v, session_state["gir_estime"]), MTP(CfgInUse).v)

InputA == IF widgets.A.typed THEN widgets.A.v ELSE InputPlafond

InputR == RevenusPrisEnCompte(widgets.revenus_foyer, widgets.situation)

\* what the current inputs give: A_effectif and P
InputAeff == A_effectif(InputA, InputPlafond)

InputP == compute_participation(InputR, InputAeff, MTP(CfgInUse).v)

RaiseInit ==
    /\ g_responses \in CompleteResponses
    /\ g_result = 0
    /\ g_prevResponses = << >> /\ g_prevResult = 0
    /\ p_Idle
    /\ s_Idle

\* a second call, with the answer of item k raised to v
Raise(k, v) ==
    /\ g_result # 0
    /\ g_prevResult = 0
    /\ v > g_responses[k]
    /\ g_prevResponses' = g_responses
    /\ g_prevResult' = g_result
    /\ g_responses' = [g_responses EXCEPT ![k] = v]
    /\ g_result' = compute_gir_simplified([g_responses EXCEPT ![k] = v])
    /\ UNCHANGED <<p_vars, s_vars>>

RaiseNext ==
    \/ Estimate
    \/ \E k \in AGGIR_CODES, v \in CHOICES : Raise(k, v)

SpecRaise == RaiseInit /\ [][RaiseNext]_vars

\* the one answer of the assessment before that is not 0 is a 1, and it is the
\* answer that was raised
RaisedTheOnlyPartial ==
    /\ CountOf(g_prevResponses, 1) = 1
    /\ CountOf(g_prevResponses, 2) = 0
    /\ CountOf(g_responses, 1) = 0
    /\ CountOf(g_responses, 2) = 1

\* C12 (as claimed): raising a single answer of a complete assessment never
\* yields a numerically higher (less severe) grade than before.
C12_MonotoneInSeverity == g_prevResult # 0 => g_result <= g_prevResult

\* C12 (amended): raising a single answer never yields a higher grade, except
\* when the answer raised from 1 to 2 was the only answer other than 0: the
\* grade then goes from 4 to 5.
C12_MonotoneButOnlyPartial ==
    g_prevResult # 0 =>
        IF RaisedTheOnlyPartial
        THEN g_prevResult = 4 /\ g_result = 5
        ELSE g_result <= g_prevResult

\* C12 witness: an answer raised from 1 to 2 that was not the only answer
\* other than 0, and a grade strictly more severe than before.
C12_Witness ==
    /\ g_prevResult # 0
    /\ ~RaisedTheOnlyPartial
    /\ CountOf(g_responses, 2) = CountOf(g_prevResponses, 2) + 1
    /\ CountOf(g_responses, 1) = CountOf(g_prevResponses, 1) - 1
    /\ g_result < g_prevResult

=============================================================================
